---- MODULE Spec2Model ----
(***************************************************************************)
(* On-hold student tracker: the record store (create / update / delete),   *)
(* the login tokens that gate it, and the scheduled reminder run           *)
(* (select -> group -> send with retry -> advance dates).                  *)
(*                                                                         *)
(* Two server variants live in the repository:                             *)
(*   "encrypted"  src/server.js          JWT-gated routes, no date advance *)
(*   "plain"      src/unnamed/part_003   open routes, advances the dates   *)
(* The variable `variant` is fixed by Init and selects between them.       *)
(*                                                                         *)
(* Strings that the code compares or renders as dates are sequences of     *)
(* digits, compared as MongoDB compares strings (lexicographically);       *)
(* an optional field is <<>> (undefined) or <<s>> (the string s).          *)
(***************************************************************************)
EXTENDS Integers, Sequences, FiniteSets, TLC

VARIABLES
    variant,     \* which server file is running
    env,         \* process.env: mail configuration and cron secret
    users,       \* User collection: email -> isAdmin
    tokens,      \* JWT payloads issued so far
    students,    \* Student collection: a set of documents
    nextOid,     \* next storage-assigned _id
    creates,     \* POST /api/students handlers between findOne and save
    now,         \* the calendar day of the server clock
    cron,        \* the reminder run in progress
    runs,        \* reminder runs started so far
    activities,  \* Activity collection, insertion-ordered
    lastResp,    \* the most recent HTTP response
    call         \* the most recent call of encryptText / decryptText

vars == <<variant, env, users, tokens, students, nextOid, creates, now, cron,
          runs, activities, lastResp, call>>

-----------------------------------------------------------------------------
(* Bounds of the model *)

MaxOid == 3        \* documents inserted over one behaviour
MaxDay == 2        \* last day the clock reaches
MaxRuns == 2       \* reminder runs started over one behaviour
MaxInFlight == 2   \* concurrent POST /api/students handlers

(* Program constants *)

MaxRetries == 3    \* sendEmailWithRetry(mailOptions, maxRetries = 3)
AdvanceDays == 7   \* nextWeek.setDate(nextWeek.getDate() + 7)

ON_HOLD == "On hold"
PENDING == "Pending"
Status == {"On hold", "Added", "Pending", "Refunded", "Discontinued"}

ADMIN_USERS == {"praveen_k@lmes.in", "nawinrexroy_j@lmes.in", "gokul_s@lmes.in"}
OpsMailbox == "gokul_s@lmes.in"
Unassigned == "Unassigned"

-----------------------------------------------------------------------------
(* Strings and optional values *)

Undefined == <<>>
Str(s) == <<s>>
IsDefined(v) == v /= Undefined
EmptyStr == <<>>

\* String(n).padStart(2, '0'): the day as a fixed-width digit string
Pad2(n) == <<(n \div 10) % 10, n % 10>>

\* MongoDB / JavaScript string order: lexicographic, a proper prefix first
RECURSIVE StrLte(_, _)
StrLte(a, b) ==
    IF a = <<>> THEN TRUE
    ELSE IF b = <<>> THEN FALSE
    ELSE IF Head(a) < Head(b) THEN TRUE
    ELSE IF Head(a) > Head(b) THEN FALSE
    ELSE StrLte(Tail(a), Tail(b))

\* JavaScript truthiness of an optional string
Truthy(v) == IsDefined(v) /\ v[1] /= EmptyStr

-----------------------------------------------------------------------------
(* Documents *)

\* the fields the server encrypts; their values are strings of UTF-16 code
\* units, and a field the request does not carry is absent from the body
SensitiveFields == {"reasonToHold", "followUpComments", "phoneNumber", "registeredMailId"}

\* studentSchema: id unique; stopReminders defaults to false; _id is assigned
\* by the storage layer
NewStudent(body, oid) ==
    [_id            |-> oid,
     id             |-> body.id,
     reminderDate   |-> body.reminderDate,
     status         |-> body.status,
     stopReminders  |-> body.stopReminders,
     initiatedBy    |-> body.initiatedBy,
     createdByEmail |-> body.createdByEmail]
    @@ [f \in DOMAIN body \cap SensitiveFields |-> body[f]]

\* (mutant) a collection without the unique index
NoUniqueIndex(docs, d) == TRUE

\* the unique index on `id`: an insert or update that would leave two
\* documents with one id is refused by the storage layer (E11000)
UniqueIndexOk(docs, d) == \A e \in docs : e._id /= d._id => e.id /= d.id

\* (mutant) a lookup that never finds the document
FindOneNothing(docs, id) == {}

\* Student.findOne({ id })
FindOne(docs, id) == {d \in docs : d.id = id}

\* a plain-object update is applied as $set of the fields it carries
ApplyUpdate(doc, body) ==
    [f \in DOMAIN doc \cup (DOMAIN body \cap SensitiveFields) |->
        IF f \in DOMAIN body THEN body[f] ELSE doc[f]]

\* documents in insertion (_id) order
RECURSIVE SortById(_)
SortById(docs) ==
    IF docs = {} THEN <<>>
    ELSE LET first == CHOOSE d \in docs : \A e \in docs : d._id <= e._id
         IN  <<first>> \o SortById(docs \ {first})

-----------------------------------------------------------------------------
(* Responses and credentials *)

Resp(op, id, code, msg) ==
    [op |-> op, id |-> id, code |-> code, msg |-> msg, sent |-> 0, failed |-> 0]

NoResp == Resp("none", "", 0, "")

NoCred == [kind |-> "none", email |-> "", isAdmin |-> FALSE]
BadCred == [kind |-> "invalid", email |-> "", isAdmin |-> FALSE]
Jwt(t) == [kind |-> "jwt", email |-> t.email, isAdmin |-> t.isAdmin]

\* what a client can put in the token cookie / Authorization header
Creds == IF variant = "plain" THEN {NoCred}
         ELSE {NoCred, BadCred} \cup {Jwt(t) : t \in tokens}

\* authenticateToken: 0 when next() is called, otherwise the status sent.
\* The plain server mounts no middleware.
AuthenticateToken(cred) ==
    IF variant = "plain" THEN 0
    ELSE IF cred.kind = "none" THEN 401
    ELSE IF cred.kind = "invalid" THEN 403
    ELSE 0

\* authenticateAdmin
AuthenticateAdmin(cred) ==
    IF cred.kind /= "jwt" \/ ~cred.isAdmin THEN 403 ELSE 0

AuthMsg(code) == IF code = 401 THEN "Unauthorized" ELSE "Forbidden"

-----------------------------------------------------------------------------
(* Encryption helpers.  A JavaScript string is a sequence of UTF-16 code   *)
(* units, a Buffer a sequence of bytes.  AES-256-GCM is the library's; it  *)
(* is modelled by its contract: a keyed, IV-dependent bytewise bijection   *)
(* and a 16-byte tag over key, IV and ciphertext.                           *)

KeyHexChars == 64     \* ENCRYPTION_KEY.slice(0, 64)
KeyBytes == 32        \* aes-256
IvBytes == 16         \* crypto.randomBytes(16)
AuthTagBytes == 16    \* the tag getAuthTag returns and setAuthTag expects

Colon == 58
ReplacementChar == 65533

IsHighSurrogate(c) == c >= 55296 /\ c <= 56319
IsLowSurrogate(c) == c >= 56320 /\ c <= 57343

\* Buffer.from(text, 'utf8') as cipher.update(text, 'utf8', ...) does it: a
\* surrogate pair is one 4-byte sequence, an unpaired surrogate is written
\* as U+FFFD
RECURSIVE Utf8Encode(_)
Utf8Encode(str) ==
    IF str = <<>> THEN <<>>
    ELSE LET c == Head(str)
         IN  IF c < 128 THEN <<c>> \o Utf8Encode(Tail(str))
             ELSE IF c < 2048
             THEN <<192 + (c \div 64), 128 + (c % 64)>> \o Utf8Encode(Tail(str))
             ELSE IF IsHighSurrogate(c) /\ Len(str) >= 2 /\ IsLowSurrogate(str[2])
             THEN LET cp == 65536 + (c - 55296) * 1024 + (str[2] - 56320)
                  IN  <<240 + (cp \div 262144), 128 + ((cp \div 4096) % 64),
                        128 + ((cp \div 64) % 64), 128 + (cp % 64)>>
                      \o Utf8Encode(Tail(Tail(str)))
             ELSE IF IsHighSurrogate(c) \/ IsLowSurrogate(c)
             THEN <<239, 191, 189>> \o Utf8Encode(Tail(str))
             ELSE <<224 + (c \div 4096), 128 + ((c \div 64) % 64), 128 + (c % 64)>>
                  \o Utf8Encode(Tail(str))

IsContinuation(b) == b >= 128 /\ b < 192

\* buffer.toString('utf8') as decipher.update(..., 'utf8') does it: a byte
\* that starts no well-formed sequence is read as U+FFFD
RECURSIVE Utf8Decode(_)
Utf8Decode(bytes) ==
    IF bytes = <<>> THEN <<>>
    ELSE LET b == Head(bytes)
             n == Len(bytes)
         IN  IF b < 128 THEN <<b>> \o Utf8Decode(Tail(bytes))
             ELSE IF b >= 194 /\ b < 224 /\ n >= 2 /\ IsContinuation(bytes[2])
             THEN <<(b - 192) * 64 + (bytes[2] - 128)>> \o Utf8Decode(SubSeq(bytes, 3, n))
             ELSE IF b >= 224 /\ b < 240 /\ n >= 3
                     /\ IsContinuation(bytes[2]) /\ IsContinuation(bytes[3])
                     /\ (b - 224) * 4096 + (bytes[2] - 128) * 64 + (bytes[3] - 128) >= 2048
                     /\ ~IsHighSurrogate((b - 224) * 4096 + (bytes[2] - 128) * 64 + (bytes[3] - 128))
                     /\ ~IsLowSurrogate((b - 224) * 4096 + (bytes[2] - 128) * 64 + (bytes[3] - 128))
             THEN <<(b - 224) * 4096 + (bytes[2] - 128) * 64 + (bytes[3] - 128)>>
                  \o Utf8Decode(SubSeq(bytes, 4, n))
             ELSE IF b >= 240 /\ b < 245 /\ n >= 4 /\ IsContinuation(bytes[2])
                     /\ IsContinuation(bytes[3]) /\ IsContinuation(bytes[4])
                     /\ (b - 240) * 262144 + (bytes[2] - 128) * 4096
                            + (bytes[3] - 128) * 64 + (bytes[4] - 128) >= 65536
                     /\ (b - 240) * 262144 + (bytes[2] - 128) * 4096
                            + (bytes[3] - 128) * 64 + (bytes[4] - 128) < 1114112
             THEN LET cp == (b - 240) * 262144 + (bytes[2] - 128) * 4096
                               + (bytes[3] - 128) * 64 + (bytes[4] - 128)
                  IN  <<55296 + ((cp - 65536) \div 1024), 56320 + ((cp - 65536) % 1024)>>
                      \o Utf8Decode(SubSeq(bytes, 5, n))
             ELSE <<ReplacementChar>> \o Utf8Decode(Tail(bytes))

\* one hex digit as a code unit: '0'..'9', 'a'..'f'
HexDigit(n) == IF n < 10 THEN 48 + n ELSE 87 + n

\* value of a hex digit code unit, -1 for any other character
HexVal(c) ==
    IF c >= 48 /\ c <= 57 THEN c - 48
    ELSE IF c >= 97 /\ c <= 102 THEN c - 87
    ELSE IF c >= 65 /\ c <= 70 THEN c - 55
    ELSE -1

\* buffer.toString('hex')
RECURSIVE HexEncode(_)
HexEncode(bytes) ==
    IF bytes = <<>> THEN <<>>
    ELSE <<HexDigit(Head(bytes) \div 16), HexDigit(Head(bytes) % 16)>>
         \o HexEncode(Tail(bytes))

\* Buffer.from(str, 'hex'): decoding stops at the first pair that is not hex
RECURSIVE HexDecode(_)
HexDecode(str) ==
    IF Len(str) < 2 \/ HexVal(str[1]) < 0 \/ HexVal(str[2]) < 0 THEN <<>>
    ELSE <<HexVal(str[1]) * 16 + HexVal(str[2])>> \o HexDecode(SubSeq(str, 3, Len(str)))

\* str.split(':')
RECURSIVE Split(_)
Split(str) ==
    IF \A i \in 1..Len(str) : str[i] /= Colon THEN <<str>>
    ELSE LET i == CHOOSE k \in 1..Len(str) :
                      str[k] = Colon /\ \A j \in 1..(k - 1) : str[j] /= Colon
         IN  <<SubSeq(str, 1, i - 1)>> \o Split(SubSeq(str, i + 1, Len(str)))

\* parts.join(':') of three segments
Envelope(iv, authTag, encrypted) ==
    HexEncode(iv) \o <<Colon>> \o HexEncode(authTag) \o <<Colon>> \o encrypted

RECURSIVE SumSeq(_)
SumSeq(q) == IF q = <<>> THEN 0 ELSE Head(q) + SumSeq(Tail(q))

\* the cipher's key stream byte at position i
KeyStream(key, iv, i) ==
    (key[((i - 1) % Len(key)) + 1] + iv[((i - 1) % Len(iv)) + 1] + i) % 256

\* cipher.update + cipher.final
Encipher(key, iv, bytes) ==
    [i \in 1..Len(bytes) |-> (bytes[i] + KeyStream(key, iv, i)) % 256]

\* decipher.update + decipher.final, once the tag has been accepted
Decipher(key, iv, bytes) ==
    [i \in 1..Len(bytes) |-> (bytes[i] + 256 - KeyStream(key, iv, i)) % 256]

\* cipher.getAuthTag()
AuthTag(key, iv, bytes) ==
    [j \in 1..AuthTagBytes |->
        (SumSeq(key) + 3 * SumSeq(iv)
           + SumSeq([i \in 1..Len(bytes) |-> bytes[i] * (i + j)]) + j) % 256]

\* Buffer.from(ENCRYPTION_KEY.slice(0, 64), 'hex')
KeyBuffer(encryptionKey) ==
    HexDecode(SubSeq(encryptionKey, 1,
                     IF Len(encryptionKey) < KeyHexChars THEN Len(encryptionKey)
                     ELSE KeyHexChars))

\* (mutant) final() does not compare the tag
TagNotChecked(key, iv, authTag, bytes) == TRUE

\* decipher.final() throws unless the tag set by setAuthTag is the message's
TagAccepted(key, iv, authTag, bytes) ==
    Len(authTag) = AuthTagBytes /\ authTag = AuthTag(key, iv, bytes)

\* (mutant) the text is returned as it came
EncryptTextPlain(encryptionKey, iv, text) == text

\* encryptText: '' for a falsy text; the envelope; the text itself when the
\* cipher cannot be created (catch)
EncryptText(encryptionKey, iv, text) ==
    IF text = <<>> THEN <<>>
    ELSE LET key == KeyBuffer(encryptionKey)
         IN  IF Len(key) /= KeyBytes THEN text
             ELSE LET encrypted == Encipher(key, iv, Utf8Encode(text))
                  IN  Envelope(iv, AuthTag(key, iv, encrypted), HexEncode(encrypted))

\* decryptText: '' for a falsy input; the input when it has not three parts
\* or when anything throws (catch); the plaintext otherwise
DecryptText(encryptionKey, encryptedData) ==
    IF encryptedData = <<>> THEN <<>>
    ELSE LET parts == Split(encryptedData)
         IN  IF Len(parts) /= 3 THEN encryptedData
             ELSE LET iv        == HexDecode(parts[1])
                      authTag   == HexDecode(parts[2])
                      encrypted == HexDecode(parts[3])
                      key       == KeyBuffer(encryptionKey)
                  IN  IF \/ Len(key) /= KeyBytes
                         \/ iv = <<>>
                         \/ ~TagAccepted(key, iv, authTag, encrypted)
                      THEN encryptedData
                      ELSE Utf8Decode(Decipher(key, iv, encrypted))

NoCall == [fn |-> "none", key |-> <<>>, arg |-> <<>>, result |-> <<>>]

\* values crypto.randomBytes(16) returns
Ivs == {[i \in 1..IvBytes |-> 1], [i \in 1..IvBytes |-> 200]}

\* an ENCRYPTION_KEY of 64 hex digits: "aaaa...a"
HexKey == [i \in 1..KeyHexChars |-> 97]

\* the value the README shows for the variable: "your-64-char-hex-key"
PlaceholderKey ==
    <<121, 111, 117, 114, 45, 54, 52, 45, 99, 104, 97, 114, 45, 104, 101, 120, 45,
      107, 101, 121>>

\* the sensitive fields of a body that are truthy, i.e. those encryptText is
\* called for
TruthyFields(body) == {f \in DOMAIN body \cap SensitiveFields : body[f] /= <<>>}

\* studentData of POST /api/students: the two note fields are '' when falsy,
\* the two contact fields keep a falsy value (absent stays absent)
StudentData(body, ivOf) ==
    [f \in DOMAIN body \cup {"reasonToHold", "followUpComments"} |->
        IF f \in TruthyFields(body) THEN EncryptText(env.encryptionKey, ivOf[f], body[f])
        ELSE IF f \in {"reasonToHold", "followUpComments"} THEN <<>>
        ELSE body[f]]

\* updateData of PUT /api/students/:id: a falsy value is passed as it came
UpdateData(body, ivOf) ==
    [f \in DOMAIN body |->
        IF f \in TruthyFields(body) THEN EncryptText(env.encryptionKey, ivOf[f], body[f])
        ELSE body[f]]

\* the object the student routes respond with: each truthy sensitive field
\* of the document goes through decryptText (encrypted server only)
DecryptStudent(doc) ==
    IF variant = "plain" THEN doc
    ELSE [f \in DOMAIN doc |->
             IF f \in SensitiveFields /\ doc[f] /= <<>>
             THEN DecryptText(env.encryptionKey, doc[f])
             ELSE doc[f]]

-----------------------------------------------------------------------------
(* Initial state: empty collections, nobody logged in, no run in progress *)

IdleCron ==
    [pc |-> "idle", studentsToRemind |-> <<>>, tasksByAgent |-> <<>>,
     idx |-> 0, attempt |-> 0, sentCount |-> 0, failedCount |-> 0,
     dispatched |-> <<>>, delivered |-> <<>>, waits |-> <<>>]

CronSecret == "s3cr3t"

\* the server process starts against the database as it finds it: `docs` are
\* the Student documents already stored (none on a first deployment)
BootWith(docs, keys) ==
    /\ variant \in {"encrypted", "plain"}
    /\ env \in [emailConfigured : BOOLEAN, cronSecret : {Undefined, Str(CronSecret)},
                encryptionKey : keys]
    /\ users = {}
    /\ tokens = {}
    /\ students = docs
    /\ nextOid = Cardinality(docs) + 1
    /\ creates = [s \in 1..MaxInFlight |-> <<>>]
    /\ now = 1
    /\ cron = IdleCron
    /\ runs = 0
    /\ activities = <<>>
    /\ lastResp = NoResp
    /\ call = NoCall

\* a deployment whose ENCRYPTION_KEY is 64 hex digits
Boot(docs) == BootWith(docs, {HexKey})

Init == Boot({})

-----------------------------------------------------------------------------
(* Login: POST /api/auth/simple-login (encrypted variant only) *)

Emails == {"praveen_k@lmes.in", "staff@lmes.in", "guest@gmail.com"}

AllowedDomain(email) == email \in {"praveen_k@lmes.in", "staff@lmes.in"}

Login(email) ==
    /\ variant = "encrypted"
    /\ IF ~AllowedDomain(email)
       THEN /\ lastResp' = Resp("login", email, 403, "Unauthorized domain")
            /\ UNCHANGED <<users, tokens>>
       ELSE LET found == {u \in users : u.email = email}
                user  == IF found /= {} THEN CHOOSE u \in found : TRUE
                         ELSE [email |-> email, isAdmin |-> email \in ADMIN_USERS]
            IN  /\ users' = users \cup {user}
                /\ tokens' = tokens \cup {[email |-> user.email, isAdmin |-> user.isAdmin]}
                /\ lastResp' = Resp("login", email, 200, "ok")
    /\ UNCHANGED <<call, variant, env, students, nextOid, creates, now, cron, runs, activities>>

\* the middleware chain of the admin-only routes, authenticateToken then
\* authenticateAdmin: 0 when the handler runs, otherwise the status sent
AdminGate(cred) ==
    IF AuthenticateToken(cred) /= 0 THEN AuthenticateToken(cred)
    ELSE AuthenticateAdmin(cred)

AdminGateMsg(cred) ==
    IF AuthenticateToken(cred) /= 0 THEN AuthMsg(AuthenticateToken(cred))
    ELSE "Admin access required"

\* GET /api/users
ListUsers(cred) ==
    /\ variant = "encrypted"
    /\ lastResp' = IF AdminGate(cred) /= 0
                   THEN Resp("users", "", AdminGate(cred), AdminGateMsg(cred))
                   ELSE Resp("users", "", 200, "ok")
    /\ UNCHANGED <<call, variant, env, users, tokens, students, nextOid, creates, now,
                   cron, runs, activities>>

\* User.findByIdAndUpdate(userId, { isAdmin }, { new: true })
FindByIdAndUpdate(docs, userId, isAdmin) ==
    {IF u.email = userId THEN [u EXCEPT !.isAdmin = isAdmin] ELSE u : u \in docs}

\* PUT /api/users/:userId/admin ; a user is identified here by the email
SetAdmin(cred, userId, isAdmin) ==
    /\ variant = "encrypted"
    /\ IF AdminGate(cred) /= 0
       THEN /\ lastResp' = Resp("admin", userId, AdminGate(cred), AdminGateMsg(cred))
            /\ UNCHANGED users
       ELSE IF \A u \in users : u.email /= userId
       THEN /\ lastResp' = Resp("admin", userId, 404, "User not found")
            /\ UNCHANGED users
       ELSE /\ users' = FindByIdAndUpdate(users, userId, isAdmin)
            /\ lastResp' = Resp("admin", userId, 200, "ok")
    /\ UNCHANGED <<call, variant, env, tokens, students, nextOid, creates, now,
                   cron, runs, activities>>

-----------------------------------------------------------------------------
(* Record store: POST / PUT / DELETE /api/students *)

InFlight == {s \in 1..MaxInFlight : creates[s] /= <<>>}

\* POST /api/students up to `await Student.findOne`
CreateCheck(slot, cred, body) ==
    /\ creates[slot] = <<>>
    /\ nextOid + Cardinality(InFlight) <= MaxOid
    /\ LET auth == AuthenticateToken(cred)
       IN  IF auth /= 0
           THEN /\ lastResp' = Resp("create", body.id, auth, AuthMsg(auth))
                /\ UNCHANGED creates
           ELSE IF FindOne(students, body.id) /= {}
           THEN /\ lastResp' = Resp("create", body.id, 400, "Student ID already exists")
                /\ UNCHANGED creates
           ELSE /\ creates' = [creates EXCEPT ![slot] = <<body>>]
                /\ UNCHANGED lastResp
    /\ UNCHANGED <<call, variant, env, users, tokens, students, nextOid, now, cron, runs, activities>>

\* POST /api/students from `new Student(studentData).save()` to the response
CreateSave(slot) ==
    /\ creates[slot] /= <<>>
    /\ \E ivOf \in [TruthyFields(creates[slot][1]) -> Ivs] :
         LET body == creates[slot][1]
             doc  == NewStudent(IF variant = "encrypted" THEN StudentData(body, ivOf)
                                ELSE body, nextOid)
         IN  IF UniqueIndexOk(students, doc)
             THEN /\ students' = students \cup {doc}
                  /\ nextOid' = nextOid + 1
                  /\ lastResp' = Resp("create", body.id, 201, "created")
             ELSE /\ lastResp' = Resp("create", body.id, 400, "Failed to add student")
                  /\ UNCHANGED <<students, nextOid>>
    /\ creates' = [creates EXCEPT ![slot] = <<>>]
    /\ UNCHANGED <<call, variant, env, users, tokens, now, cron, runs, activities>>

\* (mutant) findOneAndUpdate with { upsert: true }
FindOneAndUpdateUpsert(docs, id, body) ==
    LET found == {d \in docs : d.id = id}
        base  == [_id |-> 0, id |-> id, reminderDate |-> Undefined, status |-> ON_HOLD,
                  stopReminders |-> FALSE, initiatedBy |-> "", createdByEmail |-> ""]
        old   == IF found = {} THEN base ELSE CHOOSE d \in found : TRUE
    IN  [result |-> "doc", docs |-> (docs \ {old}) \cup {ApplyUpdate(old, body)}]

\* Student.findOneAndUpdate({ id }, update, { new: true }): no upsert; the
\* result is null when no document matches, and the unique index can refuse
\* the write
FindOneAndUpdate(docs, id, body) ==
    LET found == FindOne(docs, id)
    IN  IF found = {} THEN [result |-> "null", docs |-> docs]
        ELSE LET old == CHOOSE d \in found : TRUE
                 new == ApplyUpdate(old, body)
             IN  IF UniqueIndexOk(docs, new)
                 THEN [result |-> "doc", docs |-> (docs \ {old}) \cup {new}]
                 ELSE [result |-> "error", docs |-> docs]

\* Student.findOneAndDelete({ id })
FindOneAndDelete(docs, id) ==
    LET found == FindOne(docs, id)
    IN  IF found = {} THEN [result |-> "null", docs |-> docs]
        ELSE [result |-> "doc", docs |-> docs \ {CHOOSE d \in found : TRUE}]

\* PUT /api/students/:id
Update(cred, id, body) ==
    /\ \E ivOf \in [TruthyFields(body) -> Ivs] :
         LET auth == AuthenticateToken(cred)
             op   == FindOneAndUpdate(students, id,
                                      IF variant = "encrypted" THEN UpdateData(body, ivOf)
                                      ELSE body)
         IN  IF auth /= 0
             THEN /\ lastResp' = Resp("update", id, auth, AuthMsg(auth))
                  /\ UNCHANGED students
             ELSE /\ students' = op.docs
                  /\ lastResp' = CASE op.result = "null"  -> Resp("update", id, 404, "Student not found")
                                   [] op.result = "error" -> Resp("update", id, 500, "Failed to update student")
                                   [] OTHER               -> Resp("update", id, 200, "updated")
    /\ UNCHANGED <<call, variant, env, users, tokens, nextOid, creates, now, cron, runs, activities>>

\* GET /api/students: the response carries the documents, sensitive fields
\* decrypted
GetStudents(cred) ==
    /\ LET auth == AuthenticateToken(cred)
       IN  lastResp' = IF auth /= 0 THEN Resp("list", "", auth, AuthMsg(auth))
                       ELSE Resp("list", "", 200, "ok")
                            @@ [f \in {"students"} |-> {DecryptStudent(d) : d \in students}]
    /\ UNCHANGED <<call, variant, env, users, tokens, students, nextOid, creates, now,
                   cron, runs, activities>>

\* DELETE /api/students/:id : authenticateToken is the only middleware
Delete(cred, id) ==
    /\ LET auth == AuthenticateToken(cred)
           op   == FindOneAndDelete(students, id)
       IN  IF auth /= 0
           THEN /\ lastResp' = Resp("delete", id, auth, AuthMsg(auth))
                /\ UNCHANGED students
           ELSE /\ students' = op.docs
                /\ lastResp' = IF op.result = "null"
                               THEN Resp("delete", id, 404, "Student not found")
                               ELSE Resp("delete", id, 200, "Student deleted successfully")
    /\ UNCHANGED <<call, variant, env, users, tokens, nextOid, creates, now, cron, runs, activities>>

\* the server clock passes midnight
Tick ==
    /\ now < MaxDay
    /\ now' = now + 1
    /\ UNCHANGED <<call, variant, env, users, tokens, students, nextOid, creates, cron,
                   runs, activities, lastResp>>

-----------------------------------------------------------------------------
(* Reminder run: GET /api/cron/send-reminders *)

\* (mutant) the query without its status condition
SelectDueAnyStatus(docs, todayStr) ==
    {d \in docs : /\ d.stopReminders /= TRUE
                  /\ IsDefined(d.reminderDate)
                  /\ StrLte(d.reminderDate[1], todayStr)}

\* (mutant) the query without its stopReminders condition
SelectDueIgnoringStop(docs, todayStr) ==
    {d \in docs : /\ IsDefined(d.reminderDate)
                  /\ StrLte(d.reminderDate[1], todayStr)
                  /\ d.status \in {ON_HOLD, PENDING}}

\* Student.find({ stopReminders: { $ne: true }, reminderDate: { $lte: todayStr },
\*                status: { $in: [ON_HOLD, PENDING] } })
\* $lte against a string matches only fields that hold a string.
SelectDue(docs, todayStr) ==
    {d \in docs : /\ d.stopReminders /= TRUE
                  /\ IsDefined(d.reminderDate)
                  /\ StrLte(d.reminderDate[1], todayStr)
                  /\ d.status \in {ON_HOLD, PENDING}}

\* const agent = s.initiatedBy || 'Unassigned'
AgentOf(s) == IF s.initiatedBy /= "" THEN s.initiatedBy ELSE Unassigned

\* names every object literal inherits from Object.prototype
ObjectPrototypeProps ==
    {"constructor", "toString", "valueOf", "hasOwnProperty", "isPrototypeOf",
     "propertyIsEnumerable", "toLocaleString", "__proto__"}

OwnKeys(obj) == {obj[i].agent : i \in 1..Len(obj)}

\* tasksByAgent = {}; forEach: if (!tasksByAgent[agent]) tasksByAgent[agent] = [];
\* tasksByAgent[agent].push(s).  The object is a sequence of own entries in
\* insertion order (the order Object.keys returns).  A lookup of an inherited
\* name is truthy, so no array is created and .push throws a TypeError.
RECURSIVE GroupByAgent(_, _)
GroupByAgent(list, obj) ==
    IF list = <<>> THEN [threw |-> FALSE, obj |-> obj]
    ELSE LET s     == Head(list)
             agent == AgentOf(s)
         IN  IF agent \in OwnKeys(obj)
             THEN GroupByAgent(Tail(list),
                      [i \in 1..Len(obj) |->
                          IF obj[i].agent = agent
                          THEN [obj[i] EXCEPT !.tasks = Append(@, s)]
                          ELSE obj[i]])
             ELSE IF agent \in ObjectPrototypeProps
             THEN [threw |-> TRUE, obj |-> obj]
             ELSE GroupByAgent(Tail(list),
                      Append(obj, [agent |-> agent, tasks |-> <<s>>]))

\* one <tr> of generateEmailTable: ${s.phoneNumber || '-'}, ${s.reasonToHold || 'N/A'},
\* ${s.reminderDate}, taken from the document as the query returned it
EmailRow(s) ==
    [student      |-> s._id,
     phoneNumber  |-> IF "phoneNumber" \in DOMAIN s /\ s.phoneNumber /= <<>>
                      THEN s.phoneNumber ELSE <<45>>,
     reasonToHold |-> IF "reasonToHold" \in DOMAIN s /\ s.reasonToHold /= <<>>
                      THEN s.reasonToHold ELSE <<78, 47, 65>>,
     reminderDate |-> s.reminderDate]

\* mailOptions of the send loop
MailOptions(group) ==
    [to      |-> OpsMailbox,
     agent   |-> group.agent,
     count   |-> Len(group.tasks),
     rows    |-> [i \in 1..Len(group.tasks) |-> EmailRow(group.tasks[i])]]

\* (mutant) the header is compared with another secret
WrongSecretExpected == <<"Bearer", "wrong">>

\* `Bearer ${process.env.CRON_SECRET}`
ExpectedAuthHeader ==
    <<"Bearer", IF env.cronSecret = Undefined THEN "undefined" ELSE env.cronSecret[1]>>

AuthHeaders == {<<>>, <<"Bearer", CronSecret>>, <<"Bearer", "undefined">>, <<"Bearer", "wrong">>}

\* (mutant) the details string carries no counts
ActivityNoCounts(action, kind, a, b) ==
    [user |-> "SYSTEM", action |-> action, kind |-> kind, a |-> 0, b |-> 0]

Activity(action, kind, a, b) == [user |-> "SYSTEM", action |-> action, kind |-> kind, a |-> a, b |-> b]

CronResp(code, msg, sent, failed) ==
    [op |-> "cron", id |-> "", code |-> code, msg |-> msg, sent |-> sent, failed |-> failed]

\* (mutant) the configuration check always passes
AlwaysConfigured == TRUE

\* !(!EMAIL_USER || !EMAIL_CLIENT_ID)
EmailConfigured == env.emailConfigured

\* the handler from the header check to the first send (no await between the
\* result of Student.find and the start of the send loop)
CronSelect(header, findOk) ==
    /\ cron.pc = "idle"
    /\ runs < MaxRuns
    /\ IF header /= ExpectedAuthHeader
       THEN /\ lastResp' = CronResp(401, "Unauthorized", 0, 0)
            /\ UNCHANGED <<cron, runs, activities>>
       ELSE /\ runs' = runs + 1
            /\ IF ~findOk
               THEN /\ activities' = Append(activities, Activity("CRON_JOB_FAILED", "error", 0, 0))
                    /\ lastResp' = CronResp(500, "Cron job failed.", 0, 0)
                    /\ UNCHANGED cron
               ELSE LET due    == SortById(SelectDue(students, Pad2(now)))
                        groups == GroupByAgent(due, <<>>)
                    IN  IF due = <<>>
                        THEN /\ activities' = Append(activities, Activity("CRON_JOB", "none", 0, 0))
                             /\ lastResp' = CronResp(200, "No reminders to send.", 0, 0)
                             /\ UNCHANGED cron
                        ELSE IF groups.threw
                        THEN /\ activities' = Append(activities, Activity("CRON_JOB_FAILED", "error", 0, 0))
                             /\ lastResp' = CronResp(500, "Cron job failed.", 0, 0)
                             /\ UNCHANGED cron
                        ELSE IF ~EmailConfigured
                        THEN /\ lastResp' = CronResp(500, "Email service not configured on server.", 0, 0)
                             /\ UNCHANGED <<cron, activities>>
                        ELSE /\ cron' = [IdleCron EXCEPT !.pc = "sending",
                                                         !.studentsToRemind = due,
                                                         !.tasksByAgent = groups.obj,
                                                         !.idx = 1,
                                                         !.attempt = 1]
                             /\ UNCHANGED <<activities, lastResp>>
    /\ UNCHANGED <<call, variant, env, users, tokens, students, nextOid, creates, now>>

\* (mutant) gives up one attempt early
ExhaustedOneEarly(attempt) == attempt = MaxRetries - 1

\* if (attempt === maxRetries) return { success: false, ... }
RetriesExhausted(attempt) == attempt = MaxRetries

\* (mutant) the exponent is the attempt number
BackoffFromTwo(attempt) == 2 ^ attempt

\* setTimeout(resolve, Math.pow(2, attempt - 1) * 1000), in seconds
Backoff(attempt) == 2 ^ (attempt - 1)

\* (mutant) a failed message is not counted
CountSentOnly(c, success) ==
    IF success THEN [c EXCEPT !.sentCount = @ + 1] ELSE c

\* if (result.success) sentCount++; else failedCount++;
CountResult(c, success) ==
    IF success THEN [c EXCEPT !.sentCount = @ + 1]
    ELSE [c EXCEPT !.failedCount = @ + 1]

\* one transporter.sendMail of sendEmailWithRetry, for the group at cron.idx;
\* a failed attempt that is not the last is followed by the backoff timer.
\* cron.waits holds the timers (in seconds) set for the message in hand.
CronAttempt(ok) ==
    /\ cron.pc = "sending"
    /\ LET group   == cron.tasksByAgent[cron.idx]
           started == IF cron.attempt = 1
                      THEN Append(cron.dispatched, MailOptions(group))
                      ELSE cron.dispatched
           waited  == IF cron.attempt = 1 THEN <<>> ELSE cron.waits
           last    == cron.idx = Len(cron.tasksByAgent)
           nextPc  == IF last THEN "summary" ELSE "sending"
       IN  IF ok
           THEN cron' = [CountResult(cron, TRUE)
                             EXCEPT !.dispatched = started,
                                    !.delivered = Append(@, group.agent),
                                    !.waits = waited,
                                    !.idx = @ + 1, !.attempt = 1, !.pc = nextPc]
           ELSE IF RetriesExhausted(cron.attempt)
           THEN cron' = [CountResult(cron, FALSE)
                             EXCEPT !.dispatched = started,
                                    !.waits = waited,
                                    !.idx = @ + 1, !.attempt = 1, !.pc = nextPc]
           ELSE cron' = [cron EXCEPT !.dispatched = started,
                                     !.waits = Append(waited, Backoff(cron.attempt)),
                                     !.attempt = @ + 1]
    /\ UNCHANGED <<call, variant, env, users, tokens, students, nextOid, creates, now,
                   runs, activities, lastResp>>

\* (mutant) a run with a failed message ends in the error response
CronSummaryAbortsOnFailure ==
    /\ cron.pc = "summary"
    /\ activities' = Append(activities,
                            Activity("CRON_JOB", "summary", cron.sentCount, cron.failedCount))
    /\ IF cron.failedCount > 0
       THEN /\ cron' = IdleCron
            /\ lastResp' = CronResp(500, "Cron job failed.", 0, 0)
       ELSE IF variant = "plain" /\ cron.sentCount > 0
       THEN /\ cron' = [cron EXCEPT !.pc = "advancing"]
            /\ UNCHANGED lastResp
       ELSE /\ cron' = IdleCron
            /\ lastResp' = CronResp(200, "Cron job completed.", cron.sentCount, cron.failedCount)
    /\ UNCHANGED <<call, variant, env, users, tokens, students, nextOid, creates, now, runs>>

\* await logActivity('CRON_JOB', summary); the encrypted server responds here
CronSummary ==
    /\ cron.pc = "summary"
    /\ activities' = Append(activities,
                            Activity("CRON_JOB", "summary", cron.sentCount, cron.failedCount))
    /\ IF variant = "plain" /\ cron.sentCount > 0
       THEN /\ cron' = [cron EXCEPT !.pc = "advancing"]
            /\ UNCHANGED lastResp
       ELSE /\ cron' = IdleCron
            /\ lastResp' = CronResp(200, "Cron job completed.", cron.sentCount, cron.failedCount)
    /\ UNCHANGED <<call, variant, env, users, tokens, students, nextOid, creates, now, runs>>

\* Student.updateMany({ _id: { $in: remindedStudentIds } },
\*                    { $set: { reminderDate: nextReminderDate } })
UpdateMany(docs, oids, date) ==
    {IF d._id \in oids THEN [d EXCEPT !.reminderDate = Str(date)] ELSE d : d \in docs}

ModifiedCount(docs, oids, date) ==
    Cardinality({d \in docs : d._id \in oids /\ d.reminderDate /= Str(date)})

\* the plain server's date advance, its audit entry and the response
CronAdvance(updateOk) ==
    /\ cron.pc = "advancing"
    /\ LET remindedStudentIds == {cron.studentsToRemind[i]._id :
                                      i \in 1..Len(cron.studentsToRemind)}
           nextReminderDate   == Pad2(now + AdvanceDays)
       IN  IF updateOk
           THEN /\ students' = UpdateMany(students, remindedStudentIds, nextReminderDate)
                /\ activities' = Append(activities,
                       Activity("CRON_JOB_UPDATE", "updated",
                                ModifiedCount(students, remindedStudentIds, nextReminderDate), 0))
           ELSE /\ activities' = Append(activities, Activity("CRON_JOB_FAILED", "update", 0, 0))
                /\ UNCHANGED students
    /\ cron' = IdleCron
    /\ lastResp' = CronResp(200, "Cron job completed.", cron.sentCount, cron.failedCount)
    /\ UNCHANGED <<call, variant, env, users, tokens, nextOid, creates, now, runs>>

-----------------------------------------------------------------------------
(* Specifications.  The handlers are the same in each; what differs is the  *)
(* set of requests the clients draw from and the deployment configuration. *)

Ids == {"s1", "s2"}

Body(id, date, status, stop, owner, creator) ==
    [id |-> id, reminderDate |-> date, status |-> status, stopReminders |-> stop,
     initiatedBy |-> owner, createdByEmail |-> creator]

\* the routes of the record store and the login route
StoreRequests(slots, emails, ids, createBodies, updateBodies) ==
    \/ \E email \in emails : Login(email)
    \/ \E slot \in slots, cred \in Creds, body \in createBodies :
           CreateCheck(slot, cred, body)
    \/ \E slot \in slots : CreateSave(slot)
    \/ \E cred \in Creds, id \in ids, body \in updateBodies : Update(cred, id, body)
    \/ \E cred \in Creds, id \in ids : Delete(cred, id)

\* the steps of the reminder run
RunSteps(headers, dbOutcomes) ==
    \/ \E header \in headers, findOk \in dbOutcomes : CronSelect(header, findOk)
    \/ \E ok \in BOOLEAN : CronAttempt(ok)
    \/ CronSummary
    \/ \E updateOk \in dbOutcomes : CronAdvance(updateOk)

Configured ==
    [emailConfigured |-> TRUE, cronSecret |-> Str(CronSecret), encryptionKey |-> HexKey]
ValidHeader == <<"Bearer", CronSecret>>

\* Record store under concurrent clients: the form's body for each id, sent
\* by the staff user; updates rewrite one field each
StoreCreateBodies ==
    {Body(id, Str(Pad2(1)), ON_HOLD, FALSE, "Alice", "staff@lmes.in") : id \in Ids}

StoreUpdateBodies ==
    {[createdByEmail |-> "praveen_k@lmes.in"], [createdByEmail |-> "staff@lmes.in"],
     [id |-> "s1"], [id |-> "s2"], [status |-> "Added"]}

InitStore == Init /\ env = Configured

StoreEmails == {"praveen_k@lmes.in", "staff@lmes.in"}

Next == StoreRequests(1..MaxInFlight, StoreEmails, Ids, StoreCreateBodies, StoreUpdateBodies)

Spec == InitStore /\ [][Next]_vars

TypeOK ==
    /\ variant \in {"encrypted", "plain"}
    /\ nextOid \in 1..(MaxOid + 1)
    /\ cron.pc \in {"idle", "sending", "summary", "advancing"}

-----------------------------------------------------------------------------
(* Record store claims, checked under Spec *)

HasId(docs, id) == \E d \in docs : d.id = id

\* C1: a create whose recordId is already stored is answered 400 (at the
\* existence check with the duplicate-id message, at the write by the storage
\* layer) and the set of stored documents is the same before and after.
C1_DuplicateCreateRejected ==
    [][/\ \A body \in StoreCreateBodies :
            HasId(students, body.id) =>
              \A slot \in 1..MaxInFlight, cred \in Creds :
                (AuthenticateToken(cred) = 0 /\ CreateCheck(slot, cred, body))
                => /\ lastResp' = Resp("create", body.id, 400, "Student ID already exists")
                   /\ creates' = creates
                   /\ students' = students
       /\ \A slot \in 1..MaxInFlight :
            (creates[slot] /= <<>> /\ creates'[slot] = <<>>
               /\ HasId(students, creates[slot][1].id) /\ CreateSave(slot))
            => /\ lastResp'.op = "create" /\ lastResp'.code = 400
               /\ students' = students]_vars

C1_Witness ==
    /\ lastResp.op = "create" /\ lastResp.code = 400
    /\ lastResp.msg = "Student ID already exists"
    /\ HasId(students, lastResp.id)
    /\ Cardinality(students) = 2

\* C2: however two creates of one recordId interleave, the store never holds
\* two documents with that id, and each write step either inserts exactly one
\* document for an id that was absent (201) or, the id being present, fails
\* with 400 and changes nothing.
C2_ConcurrentCreateExclusive ==
    /\ [](\A d, e \in students : d.id = e.id => d = e)
    /\ [][\A slot \in 1..MaxInFlight :
            (creates[slot] /= <<>> /\ creates'[slot] = <<>> /\ CreateSave(slot)) =>
               LET id == creates[slot][1].id
               IN  IF HasId(students, id)
                   THEN lastResp'.code = 400 /\ students' = students
                   ELSE /\ lastResp' = Resp("create", id, 201, "created")
                        /\ Cardinality({d \in students' : d.id = id}) = 1
                        /\ students \subseteq students']_vars

\* the loser of a race: its existence check passed, its write was refused
C2_Witness ==
    /\ lastResp = Resp("create", lastResp.id, 400, "Failed to add student")
    /\ Cardinality({d \in students : d.id = lastResp.id}) = 1

\* C3 (as claimed): no step changes the createdByEmail of a stored document.
C3_CreatorNeverChanges ==
    [][\A d \in students : \A e \in students' :
          d._id = e._id => e.createdByEmail = d.createdByEmail]_vars

\* C4: an update or delete of an id that is not stored is answered 404 and
\* leaves the store as it was (no document is created for the id).
C4_MissingIdNotFound ==
    [][\A id \in Ids :
          ~HasId(students, id) =>
             /\ \A cred \in Creds, body \in StoreUpdateBodies :
                  (AuthenticateToken(cred) = 0 /\ Update(cred, id, body))
                  => /\ lastResp' = Resp("update", id, 404, "Student not found")
                     /\ students' = students
             /\ \A cred \in Creds :
                  (AuthenticateToken(cred) = 0 /\ Delete(cred, id))
                  => /\ lastResp' = Resp("delete", id, 404, "Student not found")
                     /\ students' = students]_vars

C4_Witness ==
    /\ lastResp.op = "update" /\ lastResp.code = 404
    /\ ~HasId(students, lastResp.id)
    /\ students /= {}

\* C5 (as claimed): once a delete of an id has returned success, the id is
\* listed again only by a step that is a successful create of that id.
C5_DeletedStaysGone ==
    [][\A id \in Ids :
          (/\ lastResp = Resp("delete", id, 200, "Student deleted successfully")
           /\ ~HasId(students, id)
           /\ HasId(students', id))
          => lastResp' = Resp("create", id, 201, "created")]_vars

\* C6 (as claimed): in the authenticated variant a DELETE by a logged-in user
\* who is not an admin is rejected and removes nothing.
C6_DeleteAdminOnly ==
    [][\A cred \in Creds, id \in Ids :
          (variant = "encrypted" /\ cred.kind = "jwt" /\ ~cred.isAdmin /\ Delete(cred, id))
          => lastResp'.code /= 200 /\ students' = students]_vars

-----------------------------------------------------------------------------
(* Reminder selection: the server starts against a database that already    *)
(* holds records differing in date, status and the stop-reminders flag;    *)
(* the mail transport is configured.                                       *)

\* a stored document as an earlier create left it, numbered in insertion order
Stored(oid, id, date, status, stop, owner) ==
    NewStudent(Body(id, date, status, stop, owner, "staff@lmes.in"), oid)

SelectDates == {Undefined, Str(EmptyStr), Str(Pad2(1)), Str(Pad2(MaxDay + 1))}

SelectStores ==
    {{d1, d2} :
        d1 \in {Stored(1, "s1", date, st, stop, "Alice") :
                    date \in SelectDates, st \in Status, stop \in BOOLEAN},
        d2 \in {Stored(2, "s2", date, st, stop, "Alice") :
                    date \in SelectDates, st \in Status, stop \in BOOLEAN}}

InitSelect == (\E docs \in SelectStores : Boot(docs)) /\ env = Configured

NextSelect ==
    \/ RunSteps(AuthHeaders, BOOLEAN)
    \/ Tick

SpecSelect == InitSelect /\ [][NextSelect]_vars

Oids(list) == {list[i]._id : i \in 1..Len(list)}

\* the step in which a run's Student.find returns and the send loop starts
SelectedStep == cron.pc = "idle" /\ cron'.pc = "sending"

\* the step in which a run's Student.find returns nothing
NothingDueStep == runs' = runs + 1 /\ lastResp' = CronResp(200, "No reminders to send.", 0, 0)

\* C7: the records a run selects are exactly the stored records whose
\* stop-reminders flag is false, whose status is On hold or Pending and whose
\* reminder date is a string that orders at or before today's date string.
C7Due(d) ==
    /\ d.stopReminders = FALSE
    /\ d.status = "On hold" \/ d.status = "Pending"
    /\ d.reminderDate /= Undefined
    /\ StrLte(d.reminderDate[1], Pad2(now))

C7_SelectsExactlyDue ==
    [][/\ SelectedStep =>
            /\ Oids(cron'.studentsToRemind) = {d._id : d \in {e \in students : C7Due(e)}}
            /\ \A i \in 1..Len(cron'.studentsToRemind) : cron'.studentsToRemind[i] \in students
       /\ NothingDueStep => {e \in students : C7Due(e)} = {}]_vars

\* one record selected while an overdue Refunded record is left out
C7_Witness ==
    /\ cron.pc = "sending"
    /\ Len(cron.studentsToRemind) = 1
    /\ \E d \in students : /\ d._id \notin Oids(cron.studentsToRemind)
                           /\ d.status = "Refunded"
                           /\ d.stopReminders = FALSE
                           /\ d.reminderDate = Str(Pad2(1))

\* C8 (as claimed): a record whose reminder date is absent or the empty
\* string is never among the records a run selected.
C8_NoDateNeverSelected ==
    \A i \in 1..Len(cron.studentsToRemind) :
        /\ cron.studentsToRemind[i].reminderDate /= Undefined
        /\ cron.studentsToRemind[i].reminderDate /= Str(EmptyStr)

-----------------------------------------------------------------------------
(* Suppression: two overdue On hold records in a populated database, staff *)
(* toggling stopReminders while reminder runs are in progress.              *)

SuppressStores ==
    {{d1, d2} :
        d1 \in {Stored(1, "s1", Str(Pad2(date)), ON_HOLD, stop, "Alice") :
                    date \in 0..1, stop \in BOOLEAN},
        d2 \in {Stored(2, "s2", Str(Pad2(date)), ON_HOLD, stop, "Alice") :
                    date \in 0..1, stop \in BOOLEAN}}

InitSuppress == (\E docs \in SuppressStores : Boot(docs)) /\ env = Configured

NextSuppress ==
    \/ Login("staff@lmes.in")
    \/ \E cred \in Creds, id \in Ids, stop \in BOOLEAN :
           Update(cred, id, [stopReminders |-> stop])
    \/ RunSteps({ValidHeader}, {TRUE})

SpecSuppress == InitSuppress /\ [][NextSuppress]_vars

\* the step in which a run sends the first attempt of a message
MessageStep == Len(cron'.dispatched) = Len(cron.dispatched) + 1

ListedIn(mail) == {mail.rows[i].student : i \in 1..Len(mail.rows)}

\* the step in which a run's updateMany returns
AdvancedStep == cron.pc = "advancing" /\ cron'.pc = "idle"

-----------------------------------------------------------------------------
(* Dispatch: three overdue On hold records whose owner names vary, in a    *)
(* deployment with mail configured and a database that answers.             *)

DispatchOwners == {"", "Unassigned", "Alice", "constructor"}

DispatchStores ==
    {{Stored(1, "s1", Str(Pad2(1)), ON_HOLD, FALSE, o1),
      Stored(2, "s2", Str(Pad2(1)), ON_HOLD, FALSE, o2),
      Stored(3, "s3", Str(Pad2(1)), PENDING, FALSE, o3)} :
        o1 \in DispatchOwners, o2 \in DispatchOwners, o3 \in DispatchOwners}

InitDispatch == (\E docs \in DispatchStores : Boot(docs)) /\ env = Configured

NextDispatch ==
    \/ RunSteps({ValidHeader}, {TRUE})
    \/ Tick

SpecDispatch == InitDispatch /\ [][NextDispatch]_vars

\* the step in which an authorised run has queried the database
AuthorisedRunStep == cron.pc = "idle" /\ runs' = runs + 1

OwnerName(d) == IF d.initiatedBy = "" THEN "Unassigned" ELSE d.initiatedBy

GroupsListing(groups, d) ==
    {i \in 1..Len(groups) :
        \E j \in 1..Len(groups[i].tasks) : groups[i].tasks[j]._id = d._id}

\* C10 (as claimed): a run that finds due records lists each of them in
\* exactly one group, the group of its owner name with blank read as
\* Unassigned; there are as many groups as distinct owner names; and when the
\* send loop is over exactly one message per group has gone to the operations
\* mailbox, carrying the group's owner name.
C10_OneMessagePerOwner ==
    /\ [][LET due == {d \in students : C7Due(d)}
          IN  (AuthorisedRunStep /\ due /= {}) =>
                 /\ cron'.pc = "sending"
                 /\ \A d \in due :
                       /\ Cardinality(GroupsListing(cron'.tasksByAgent, d)) = 1
                       /\ \A i \in GroupsListing(cron'.tasksByAgent, d) :
                             cron'.tasksByAgent[i].agent = OwnerName(d)
                 /\ Len(cron'.tasksByAgent) = Cardinality({OwnerName(d) : d \in due})]_vars
    /\ [](cron.pc \in {"summary", "advancing"} =>
             /\ Len(cron.dispatched) = Len(cron.tasksByAgent)
             /\ \A i \in 1..Len(cron.dispatched) :
                   /\ cron.dispatched[i].to = "gokul_s@lmes.in"
                   /\ cron.dispatched[i].agent = cron.tasksByAgent[i].agent)

-----------------------------------------------------------------------------
(* Reminder runs: two On hold records, one always due, owned by one or two *)
(* agents; any deployment configuration, any Authorization header, a mail  *)
(* transport and a database that may fail.                                  *)

RunStores ==
    {{Stored(1, "s1", Str(Pad2(1)), ON_HOLD, FALSE, "Alice"),
      Stored(2, "s2", Str(Pad2(date)), ON_HOLD, FALSE, owner)} :
        date \in {1, MaxDay + 1}, owner \in {"Alice", "Bob"}}

InitRun == \E docs \in RunStores : Boot(docs)

NextRun == RunSteps(AuthHeaders, BOOLEAN)

SpecRun == InitRun /\ [][NextRun]_vars

\* the step in which sendEmailWithRetry returns for the message in hand
MessageOverStep == cron.pc = "sending" /\ cron'.idx = cron.idx + 1

\* the step in which a failed attempt is followed by another
RetryStep == cron.pc = "sending" /\ cron'.attempt = cron.attempt + 1

\* the step in which a run that reached the send loop responds
RunEndStep == cron.pc \in {"summary", "advancing"} /\ cron'.pc = "idle"

\* timers set for the message in hand before the attempt being made
WaitsSoFar == IF cron.attempt = 1 THEN <<>> ELSE cron.waits

\* C11: a message gets between 1 and 3 send attempts; a delivered message
\* gets no further attempt; a failure is reported only by the third attempt,
\* after two earlier failed ones; every message ends with one result, sent or
\* failed, and the send loop goes on.
C11_AttemptsBounded ==
    /\ [](cron.pc = "sending" => cron.attempt \in 1..3)
    /\ [][/\ (cron.pc = "sending" /\ Len(cron'.delivered) = Len(cron.delivered) + 1)
                => /\ cron'.idx = cron.idx + 1
                   /\ cron'.sentCount = cron.sentCount + 1
                   /\ cron'.failedCount = cron.failedCount
          /\ (cron.pc = "sending" /\ cron'.failedCount = cron.failedCount + 1)
                => /\ cron.attempt = 3
                   /\ Len(cron.waits) = 2
                   /\ cron'.delivered = cron.delivered
          /\ MessageOverStep
                => /\ Len(cron'.dispatched) = cron.idx
                   /\ cron'.sentCount + cron'.failedCount
                         = cron.sentCount + cron.failedCount + 1
                   /\ cron'.pc \in {"sending", "summary"}
          /\ RetryStep
                => /\ cron'.idx = cron.idx
                   /\ cron'.sentCount = cron.sentCount
                   /\ cron'.failedCount = cron.failedCount]_vars

\* a message has been reported failed after its third attempt
C11_Witness ==
    /\ cron.failedCount = 1
    /\ cron.delivered = <<>>
    /\ cron.waits = <<1, 2>>
    /\ cron.idx = 2

C13_FailureDoesNotAbort ==
    /\ [](cron.pc \in {"summary", "advancing"} =>
             /\ Len(cron.dispatched) = Len(cron.tasksByAgent)
             /\ cron.sentCount + cron.failedCount = Len(cron.tasksByAgent)
             /\ cron.sentCount = Len(cron.delivered))
    /\ [][/\ cron.pc = "sending" => cron'.pc \in {"sending", "summary"}
          /\ RunEndStep =>
                lastResp' = [op |-> "cron", id |-> "", code |-> 200,
                             msg |-> "Cron job completed.",
                             sent |-> Len(cron.delivered),
                             failed |-> Len(cron.tasksByAgent) - Len(cron.delivered)]]_vars

\* the first group failed on all attempts and the second was then delivered
C13_Witness ==
    /\ cron.pc = "summary"
    /\ Len(cron.dispatched) = 2
    /\ cron.delivered = <<"Bob">>
    /\ cron.failedCount = 1

\* C14: with the mail configuration absent no run enters the send loop, no
\* message is handed to the transport and no stored record changes.
C14_UnconfiguredAborts ==
    /\ [](~env.emailConfigured => (cron.pc = "idle" /\ cron.dispatched = <<>>))
    /\ [][~env.emailConfigured => students' = students]_vars

\* a run found due records and stopped at the configuration check
C14_Witness ==
    /\ lastResp = CronResp(500, "Email service not configured on server.", 0, 0)
    /\ runs > 0
    /\ \E d \in students : C7Due(d)

\* C15 (as claimed): a run that answers 500 has appended a failure audit
\* entry in the step in which it responds.
C15_AbortLogsFailure ==
    [][(runs' = runs + 1 /\ lastResp'.op = "cron" /\ lastResp'.code = 500)
          => /\ Len(activities') = Len(activities) + 1
             /\ activities'[Len(activities')].action = "CRON_JOB_FAILED"]_vars

C18_WrongHeaderRejected ==
    [][\A header \in AuthHeaders, findOk \in BOOLEAN :
          (/\ env.cronSecret /= Undefined
           /\ header /= <<"Bearer", env.cronSecret[1]>>
           /\ CronSelect(header, findOk))
          => /\ lastResp' = [op |-> "cron", id |-> "", code |-> 401,
                             msg |-> "Unauthorized", sent |-> 0, failed |-> 0]
             /\ UNCHANGED <<students, cron, runs, activities>>]_vars

\* a rejected request against a database that holds a due record
C18_Witness ==
    /\ lastResp = CronResp(401, "Unauthorized", 0, 0)
    /\ env.cronSecret /= Undefined
    /\ runs = 0
    /\ \E d \in students : C7Due(d)

-----------------------------------------------------------------------------
(* Date advance: the same runs on the server that advances reminder dates, *)
(* against a database that answers.                                         *)

InitAdvance == InitRun /\ variant = "plain" /\ env = Configured

NextAdvance == RunSteps({ValidHeader}, {TRUE})

SpecAdvance == InitAdvance /\ [][NextAdvance]_vars

NotifiedOids(c) ==
    UNION {Oids(c.tasksByAgent[i].tasks) :
              i \in {j \in 1..Len(c.tasksByAgent) :
                        \E k \in 1..Len(c.delivered) :
                            c.delivered[k] = c.tasksByAgent[j].agent}}

\* C16 (as claimed): when a run ends, the records of the groups whose message
\* was delivered carry today + 7 days and every other record carries the
\* date it had.
C16_AdvanceOnlyDelivered ==
    [][RunEndStep =>
          \A d \in students : \E e \in students' :
              /\ e._id = d._id
              /\ e.reminderDate = IF d._id \in NotifiedOids(cron)
                                  THEN Str(Pad2(now + 7))
                                  ELSE d.reminderDate]_vars

-----------------------------------------------------------------------------
(* Encryption helpers called directly: two 256-bit keys, two IVs, texts    *)
(* with ASCII, colons, a two-byte character, an astral character and       *)
(* unpaired surrogates; decryptText is given the previous result, a copy   *)
(* of it with one hex digit changed, or a string that is no envelope.      *)

Chr(c) == CHOOSE n \in 0..127 : <<c, n>> \in
              {<<"a", 97>>, <<"b", 98>>, <<"c", 99>>, <<"d", 100>>, <<"e", 101>>,
               <<"f", 102>>, <<":", 58>>, <<"0", 48>>, <<"1", 49>>, <<"z", 122>>}

Keys == {[i \in 1..KeyHexChars |-> Chr("a")], [i \in 1..KeyHexChars |-> Chr("b")]}

\* "", "a", "a:", "a:b:c", "\u00E9", "\uD83D\uDE00", "\uFFFD", and two texts
\* with an unpaired surrogate: "\uD83D" and "a\uDE00"
Texts ==
    {<<>>, <<Chr("a")>>, <<Chr("a"), Chr(":")>>,
     <<Chr("a"), Chr(":"), Chr("b"), Chr(":"), Chr("c")>>,
     <<233>>, <<55357, 56832>>, <<ReplacementChar>>,
     <<55357>>, <<Chr("a"), 56832>>}

NotEnvelopes ==
    {<<Chr("z")>>,
     <<Chr("a"), Chr(":"), Chr("b")>>,
     <<Chr("a"), Chr(":"), Chr("b"), Chr(":"), Chr("c"), Chr(":"), Chr("d")>>,
     <<Chr("z"), Chr(":"), Chr("z"), Chr(":"), Chr("z")>>,
     <<Chr("a"), Chr("b"), Chr(":"), Chr("c"), Chr("d"), Chr(":"), Chr("e"), Chr("f")>>}

\* the string with the hex digit at position i replaced by another one
Tamper(str, i) ==
    [str EXCEPT ![i] = IF @ = Chr("0") THEN Chr("1") ELSE Chr("0")]

\* positions of one digit of the tag and of the last digit of the ciphertext
TamperAt(str) == {2 * IvBytes + 2, Len(str)}

Tampered(str) ==
    IF Len(Split(str)) = 3 /\ Len(str) > 2 * IvBytes + 2 * AuthTagBytes + 2
    THEN {Tamper(str, i) : i \in TamperAt(str)}
    ELSE {}

CallEncrypt(key, iv, text) ==
    /\ call' = [fn |-> "encryptText", key |-> key, arg |-> text,
                result |-> EncryptText(key, iv, text)]
    /\ UNCHANGED <<variant, env, users, tokens, students, nextOid, creates, now,
                   cron, runs, activities, lastResp>>

CallDecrypt(key, data) ==
    /\ call' = [fn |-> "decryptText", key |-> key, arg |-> data,
                result |-> DecryptText(key, data)]
    /\ UNCHANGED <<variant, env, users, tokens, students, nextOid, creates, now,
                   cron, runs, activities, lastResp>>

InitCrypto == Init /\ variant = "encrypted" /\ env = Configured

NextCrypto ==
    \/ \E key \in Keys, iv \in Ivs, text \in Texts : CallEncrypt(key, iv, text)
    \/ \E key \in Keys :
          \E data \in {call.result} \cup Tampered(call.result) \cup NotEnvelopes :
              CallDecrypt(key, data)

SpecCrypto == InitCrypto /\ [][NextCrypto]_vars

\* the step in which decryptText is given what encryptText just returned,
\* under the same key
RoundTripStep ==
    /\ call.fn = "encryptText"
    /\ call'.fn = "decryptText"
    /\ call'.key = call.key
    /\ call'.arg = call.result

Colons(str) == Cardinality({i \in 1..Len(str) : str[i] = 58})

\* C19 (as claimed): under one key decryptText gives back every non-empty
\* text encryptText was given; both map the empty string to itself; the
\* result of encryptText for a non-empty text has three colon-separated
\* segments and is not the text.
C19_RoundTrip ==
    /\ [](call.fn = "encryptText" =>
             IF call.arg = <<>> THEN call.result = <<>>
             ELSE /\ Len(Split(call.result)) = 3
                  /\ call.result /= call.arg)
    /\ [](call.fn = "decryptText" /\ call.arg = <<>> => call.result = <<>>)
    /\ [][(RoundTripStep /\ call.arg /= <<>>) => call'.result = call.arg]_vars

\* C20: decryptText returns its input when the input has fewer or more than
\* three colon-separated parts, when it is an envelope with a digit of its
\* tag or ciphertext changed, and when it is an envelope made under another
\* key.
C20_DecryptFallsBack ==
    /\ [](call.fn = "decryptText" /\ Colons(call.arg) /= 2 => call.result = call.arg)
    /\ [][/\ (call.fn = "encryptText" /\ call'.fn = "decryptText"
                 /\ call'.arg \in Tampered(call.result))
              => call'.result = call'.arg
          /\ (call.fn = "encryptText" /\ call'.fn = "decryptText"
                 /\ call'.arg = call.result /\ call'.key /= call.key)
              => call'.result = call'.arg]_vars

\* decryptText has been given an envelope whose last ciphertext digit was
\* changed and has returned it
C20_Witness ==
    /\ call.fn = "decryptText"
    /\ Colons(call.arg) = 2
    /\ Len(call.arg) > 2 * IvBytes + 2 * AuthTagBytes + 2
    /\ \E key \in Keys, iv \in Ivs, text \in Texts :
          /\ text /= <<>>
          /\ call.arg = Tamper(EncryptText(key, iv, text), Len(call.arg))
          /\ call.key = key
    /\ call.result = call.arg

\* ---------------------------------------------------------------------------
\* C23: the id of a record never changes: after every step, each stored
\* document that is still stored carries the id it had before the step.
C23_RecordIdImmutable ==
    [][\A d \in students : \A e \in students' : e._id = d._id => e.id = d.id]_vars

\* ---------------------------------------------------------------------------
\* C26: with no batch secret configured, every request to the batch endpoint
\* is answered 401 and starts no run, whatever Authorization header it
\* carries.
C26_NoSecretRejectsAll ==
    [][\A header \in AuthHeaders, findOk \in BOOLEAN :
          (/\ env.cronSecret = Undefined
           /\ CronSelect(header, findOk))
          => /\ lastResp' = [op |-> "cron", id |-> "", code |-> 401,
                             msg |-> "Unauthorized", sent |-> 0, failed |-> 0]
             /\ UNCHANGED <<students, cron, runs, activities>>]_vars

\* ---------------------------------------------------------------------------
\* C24: a run goes from idle through the selection to the send loop, from the
\* send loop to the summary, from the summary to the date advance or to the
\* response, and from the date advance to the response, never backwards; a
\* message is handed to the transport only by a run that has selected; a
\* stored record changes only in the date advance, after the last message of
\* the run has its result; and the error response is given only by the
\* selection step, before any message of the run.
C24_RunOrder ==
    [][/\ cron.pc = "idle" => cron'.pc \in {"idle", "sending"}
       /\ cron.pc = "sending" => cron'.pc \in {"sending", "summary"}
       /\ cron.pc = "summary" => cron'.pc \in {"advancing", "idle"}
       /\ cron.pc = "advancing" => cron'.pc = "idle"
       /\ cron'.pc = "sending" /\ cron.pc /= "sending"
             => /\ cron'.studentsToRemind = SortById(SelectDue(students, Pad2(now)))
                /\ cron'.dispatched = <<>>
       /\ cron'.dispatched /= cron.dispatched /\ cron'.dispatched /= <<>>
             => /\ cron.pc = "sending"
                /\ cron.studentsToRemind /= <<>>
                /\ cron'.dispatched =
                      Append(cron.dispatched, MailOptions(cron.tasksByAgent[cron.idx]))
       /\ students' /= students
             => /\ cron.pc = "advancing"
                /\ Len(cron.dispatched) = Len(cron.tasksByAgent)
                /\ cron.sentCount + cron.failedCount = Len(cron.tasksByAgent)
       /\ cron.pc /= "idle"
             => \/ lastResp' = lastResp
                \/ /\ lastResp'.code = 200
                   /\ cron'.pc = "idle"
                   /\ cron.sentCount + cron.failedCount = Len(cron.tasksByAgent)
       /\ lastResp'.code = 500 /\ lastResp' /= lastResp
             => cron.pc = "idle" /\ cron'.pc = "idle" /\ cron.dispatched = <<>>]_vars

\* a run of the plain server has sent one message of two, has logged its
\* summary, has advanced a date and has responded
C24_Witness ==
    /\ cron.pc = "idle"
    /\ variant = "plain"
    /\ lastResp = CronResp(200, "Cron job completed.", 1, 1)
    /\ Len(activities) = 2
    /\ activities[1] = Activity("CRON_JOB", "summary", 1, 1)
    /\ activities[2].action = "CRON_JOB_UPDATE"
    /\ \E d \in students : d.reminderDate = Str(Pad2(now + AdvanceDays))

\* ---------------------------------------------------------------------------
\* Several scheduled runs on one day: a configured deployment of either
\* server, the scheduler's header, a database that answers, no clock tick and
\* no user request between the runs.

InitSameDay == InitRun /\ env = Configured

NextSameDay == RunSteps({ValidHeader}, {TRUE})

SpecSameDay == InitSameDay /\ [][NextSameDay]_vars

\* the latest run delivered every one of its messages
AllDelivered ==
    /\ lastResp.code = 200
    /\ lastResp.msg = "Cron job completed."
    /\ lastResp.sent > 0
    /\ lastResp.failed = 0

\* C25: a record notified by a run is not selected by a later run of the same
\* day.  With no update and no tick between the runs, every record a run can
\* select was selected by the run before it, so after a run that delivered
\* all its messages the next run of the day selects nothing.
C25_NotifiedOncePerDay ==
    [][(cron.pc = "idle" /\ AllDelivered) => cron'.pc /= "sending"]_vars

\* ---------------------------------------------------------------------------
\* User updates while a run of the plain server is under way: an update may
\* land between any two awaits of the handler.

RaceUpdateBodies ==
    {[reminderDate |-> Str(Pad2(MaxDay + 20))], [stopReminders |-> TRUE]}

InitRace == InitRun /\ variant = "plain" /\ env = Configured

NextRace ==
    \/ \E id \in Ids, body \in RaceUpdateBodies : Update(NoCred, id, body)
    \/ RunSteps({ValidHeader}, {TRUE})

SpecRace == InitRace /\ [][NextRace]_vars

\* the document as the run's query returned it
Selected(oid) ==
    {cron.studentsToRemind[i] : i \in {j \in 1..Len(cron.studentsToRemind) :
                                          cron.studentsToRemind[j]._id = oid}}

\* C30: when the date advance is applied, a selected record whose date or
\* suppression flag no longer has the value the selection read (an update
\* wrote it in between) keeps that written value.
C30_AdvanceKeepsUserUpdate ==
    [][cron.pc = "advancing" =>
          \A d \in students : \A s \in Selected(d._id) : \E e \in students' :
              /\ e._id = d._id
              /\ d.reminderDate /= s.reminderDate => e.reminderDate = d.reminderDate
              /\ d.stopReminders /= s.stopReminders => e.stopReminders = d.stopReminders]_vars

\* ---------------------------------------------------------------------------
\* User management on the encrypted server: any user logs in, any holder of
\* a token lists the users or sets a user's admin flag.

InitAdmin == Init /\ variant = "encrypted" /\ env = Configured

NextAdmin ==
    \/ \E email \in Emails : Login(email)
    \/ \E cred \in Creds : ListUsers(cred)
    \/ \E cred \in Creds, userId \in Emails, isAdmin \in BOOLEAN :
           SetAdmin(cred, userId, isAdmin)

SpecAdmin == InitAdmin /\ [][NextAdmin]_vars

\* the user of this token has the admin flag off in the users collection;
\* only SetAdmin turns a stored flag off
Revoked(cred) ==
    /\ cred.kind = "jwt"
    /\ \E u \in users : u.email = cred.email /\ ~u.isAdmin

\* C29: an admin-only request made with a token of a user whose stored admin
\* flag is off is answered 403 and changes no user, whenever the token was
\* issued.
C29_RevokedAdminRejected ==
    [][\A cred \in Creds :
          (/\ Revoked(cred)
           /\ \/ ListUsers(cred)
              \/ \E userId \in Emails, isAdmin \in BOOLEAN : SetAdmin(cred, userId, isAdmin))
          => lastResp'.code = 403 /\ users' = users]_vars

\* ---------------------------------------------------------------------------
\* Sensitive fields through the student routes: one record id, bodies that
\* carry a phone number and a hold reason or leave them out, with the values
\* "", "a" and "\uD83D" (an unpaired surrogate); updates rewrite one
\* sensitive field; the deployment's ENCRYPTION_KEY is 64 hex digits or the
\* README's placeholder.

CodecTexts == {<<>>, <<97>>, <<55357>>}

CodecCreateBodies ==
    {Body("s1", Str(Pad2(1)), ON_HOLD, FALSE, "Alice", "staff@lmes.in") @@ sens :
        sens \in UNION {[S -> CodecTexts] : S \in SUBSET {"phoneNumber", "reasonToHold"}}}

CodecUpdateBodies ==
    {[phoneNumber |-> t] : t \in CodecTexts}
        \cup {[reasonToHold |-> t] : t \in CodecTexts}
        \cup {[registeredMailId |-> <<97>>]}

InitCodec ==
    /\ BootWith({}, {HexKey, PlaceholderKey})
    /\ env.emailConfigured
    /\ env.cronSecret = Str(CronSecret)

NextCodec ==
    \/ Login("staff@lmes.in")
    \/ \E cred \in Creds, body \in CodecCreateBodies : CreateCheck(1, cred, body)
    \/ CreateSave(1)
    \/ \E cred \in Creds, body \in CodecUpdateBodies : Update(cred, "s1", body)
    \/ \E cred \in Creds : GetStudents(cred)

SpecCodec == InitCodec /\ [][NextCodec]_vars

\* the step in which a POST stores its record
CreatedStep == creates[1] /= <<>> /\ students' /= students

\* stands for a field the record does not have (no text holds this unit)
Absent == <<-1>>

Field(r, f) == IF f \in DOMAIN r THEN r[f] ELSE Absent

\* C21: a created record reads back as it was sent: each sensitive field the
\* body carries with a non-empty value is returned with that value; a
\* sensitive field that is empty or absent in the body is stored empty or not
\* at all and is returned empty or not at all; every other field of the body
\* is returned as sent.
C21_RoundTrip ==
    [][CreatedStep =>
          \A doc \in students' \ students :
              /\ \A f \in SensitiveFields :
                    IF Field(creates[1][1], f) \notin {Absent, <<>>}
                    THEN Field(DecryptStudent(doc), f) = creates[1][1][f]
                    ELSE /\ Field(doc, f) \in {Absent, <<>>}
                         /\ Field(DecryptStudent(doc), f) \in {Absent, <<>>}
              /\ \A f \in DOMAIN creates[1][1] \ SensitiveFields :
                    DecryptStudent(doc)[f] = creates[1][1][f]]_vars

\* three colon-separated segments: 32 hex digits of IV, 32 of tag, and a
\* non-empty ciphertext
IsEnvelope(v) ==
    /\ Len(Split(v)) = 3
    /\ Len(Split(v)[1]) = 2 * IvBytes /\ Len(HexDecode(Split(v)[1])) = IvBytes
    /\ Len(Split(v)[2]) = 2 * AuthTagBytes /\ Len(HexDecode(Split(v)[2])) = AuthTagBytes
    /\ Split(v)[3] /= <<>>

\* C28: on the encrypted server every non-empty value stored in a sensitive
\* field of a record is an envelope, and is not a text a caller sent.
C28_StoredValuesAreEnvelopes ==
    variant = "encrypted" =>
        \A d \in students : \A f \in DOMAIN d \cap SensitiveFields :
            d[f] /= <<>> => IsEnvelope(d[f]) /\ d[f] \notin CodecTexts

\* ---------------------------------------------------------------------------
\* Runs over records that carry sensitive fields: s1 was created through the
\* form with phone "9", mail "a@b.com" and a hold reason of "" or "x", so on
\* the encrypted server its stored values are envelopes; s2 is a record
\* without these fields.

MailText == <<97, 64, 98, 46, 99, 111, 109>>

AtRest(text, iv) == IF variant = "encrypted" THEN EncryptText(HexKey, iv, text) ELSE text

InitMail ==
    /\ \E iv \in Ivs, reason \in {<<>>, <<120>>}, date \in {1, MaxDay + 1},
          owner \in {"Alice", "Bob"} :
          Boot({Stored(1, "s1", Str(Pad2(1)), ON_HOLD, FALSE, "Alice")
                    @@ [phoneNumber      |-> AtRest(<<57>>, iv),
                        registeredMailId |-> AtRest(MailText, iv),
                        reasonToHold     |-> AtRest(reason, iv),
                        followUpComments |-> <<>>],
                Stored(2, "s2", Str(Pad2(date)), ON_HOLD, FALSE, owner)})
    /\ env = Configured

NextMail == RunSteps({ValidHeader}, {TRUE})

SpecMail == InitMail /\ [][NextMail]_vars

\* `${value || fallback}` for a field of a response object
OrElse(r, f, fallback) == IF Field(r, f) \in {Absent, <<>>} THEN fallback ELSE r[f]

\* C27: on the encrypted server, each row of a message shows the phone and
\* the hold reason a read of the record returns ('-' and 'N/A' when empty),
\* and shows no envelope.
C27_MailShowsPlaintext ==
    [][(variant = "encrypted" /\ cron.pc = "sending" /\ MessageStep) =>
          LET mail  == cron'.dispatched[Len(cron'.dispatched)]
              tasks == cron.tasksByAgent[cron.idx].tasks
          IN  \A i \in 1..Len(tasks) :
                  /\ mail.rows[i].phoneNumber
                        = OrElse(DecryptStudent(tasks[i]), "phoneNumber", <<45>>)
                  /\ mail.rows[i].reasonToHold
                        = OrElse(DecryptStudent(tasks[i]), "reasonToHold", <<78, 47, 65>>)
                  /\ ~IsEnvelope(mail.rows[i].phoneNumber)
                  /\ ~IsEnvelope(mail.rows[i].reasonToHold)]_vars

\* C22: a run changes no field of a record but reminderDate, and when it ends
\* each record of a delivered message carries today + 7 days and reads back
\* with the mail address it had.
C22_RunChangesOnlyDate ==
    [][/\ \A d \in students : \E e \in students' :
              /\ e._id = d._id
              /\ DOMAIN e = DOMAIN d
              /\ \A f \in DOMAIN d \ {"reminderDate"} : e[f] = d[f]
       /\ RunEndStep =>
              \A d \in students : \E e \in students' :
                  /\ e._id = d._id
                  /\ Field(DecryptStudent(e), "registeredMailId")
                        = Field(DecryptStudent(d), "registeredMailId")
                  /\ d._id \in NotifiedOids(cron)
                        => e.reminderDate = Str(Pad2(now + AdvanceDays))]_vars

====
